---- MODULE Spec2Model ----
(***************************************************************************)
(* Model of autodoc_helper.py: the progress ledger (load_progress,         *)
(* save_progress, cmd_complete), the scheduler (cmd_next, cmd_status) and  *)
(* the task builder (prepare_task, prepare_tasks).                         *)
(*                                                                         *)
(* Text (str) is a sequence of one-character strings, so that str(),       *)
(* strip(), lower(), substring search and string comparison are computed.  *)
(* Python's None is the empty sequence, a present value x is <<x>>.        *)
(***************************************************************************)
EXTENDS Integers, Sequences, FiniteSets, TLC

\* ---------------------------------------------------------------- bounds
\* scenario IDs range over 1..MaxId
MaxId == 3
\* datetime.now() ranges over 1..MaxClock
MaxClock == 2
\* `next --count` ranges over -1..MaxCount
MaxCount == 2
\* flow trees have at most MaxSize nodes and routes together
MaxSize == 5
\* flows of nodes of every kind have at most MaxFlat nodes
MaxFlat == 2

VARIABLES
    manifestFile,   \* SNAPSHOT_DIR/manifest.json: [exists, scenarios]
    progressFile,   \* PROGRESS_FILE: [exists, text], text the chunks written
    now,            \* the last value datetime.now() returned
    result,         \* what the last command returned or printed
    flowFiles,      \* SNAPSHOT_DIR/<filename>: scenario id -> [state, blueprint]
    schemaFile,     \* SCHEMA_FILE: [exists, tables]
    tasksDir,       \* TASKS_DIR/<id>_task.json: scenario id -> the artifact or None
    procs           \* concurrent `complete` processes: process -> [pc, ...]

ledgerVars == <<manifestFile, progressFile, now, result>>
taskVars == <<flowFiles, schemaFile, tasksDir>>
vars == <<manifestFile, progressFile, now, result, flowFiles, schemaFile, tasksDir, procs>>

\* ------------------------------------------------------------ Python values
None == <<>>
Some(x) == <<x>>
IsNone(v) == v = None
Val(v) == v[1]

\* `not v` for a value that is None or a non-empty string
Falsy(v) == IsNone(v)

Min(a, b) == IF a <= b THEN a ELSE b
Max(a, b) == IF a >= b THEN a ELSE b

\* ------------------------------------------------------------------- text
Digit(d) ==
    CASE d = 0 -> "0" [] d = 1 -> "1" [] d = 2 -> "2" [] d = 3 -> "3"
      [] d = 4 -> "4" [] d = 5 -> "5" [] d = 6 -> "6" [] d = 7 -> "7"
      [] d = 8 -> "8" [] d = 9 -> "9"

RECURSIVE DigitsOf(_)
DigitsOf(n) == IF n < 10 THEN <<Digit(n)>> ELSE DigitsOf(n \div 10) \o <<Digit(n % 10)>>

\* str(n) of an integer
str(n) == IF n < 0 THEN <<"-">> \o DigitsOf(0 - n) ELSE DigitsOf(n)

\* code points of the characters the model uses
Ord(c) ==
    CASE c = " " -> 32 [] c = "\"" -> 34 [] c = "," -> 44 [] c = "-" -> 45
      [] c = "0" -> 48 [] c = "1" -> 49 [] c = "2" -> 50 [] c = "3" -> 51
      [] c = "4" -> 52 [] c = "5" -> 53 [] c = "6" -> 54 [] c = "7" -> 55
      [] c = "8" -> 56 [] c = "9" -> 57 [] c = ":" -> 58
      [] c = "A" -> 65 [] c = "B" -> 66 [] c = "C" -> 67 [] c = "L" -> 76
      [] c = "N" -> 78 [] c = "O" -> 79 [] c = "S" -> 83 [] c = "U" -> 85
      [] c = "[" -> 91 [] c = "]" -> 93 [] c = "_" -> 95
      [] c = "a" -> 97 [] c = "b" -> 98 [] c = "c" -> 99 [] c = "d" -> 100
      [] c = "e" -> 101 [] c = "f" -> 102 [] c = "g" -> 103 [] c = "h" -> 104
      [] c = "i" -> 105 [] c = "l" -> 108 [] c = "m" -> 109 [] c = "n" -> 110
      [] c = "o" -> 111 [] c = "p" -> 112 [] c = "r" -> 114 [] c = "s" -> 115
      [] c = "t" -> 116 [] c = "u" -> 117 [] c = "w" -> 119
      [] c = "{" -> 123 [] c = "}" -> 125

\* str.lower() of one character
LowerChar(c) ==
    CASE c = "A" -> "a" [] c = "B" -> "b" [] c = "C" -> "c" [] c = "L" -> "l"
      [] c = "N" -> "n" [] c = "O" -> "o" [] c = "S" -> "s" [] c = "U" -> "u"
      [] OTHER -> c

lower(s) == [i \in 1..Len(s) |-> LowerChar(s[i])]

RECURSIVE lstrip(_)
lstrip(s) == IF s # <<>> /\ s[1] = " " THEN lstrip(Tail(s)) ELSE s

RECURSIVE rstrip(_)
rstrip(s) ==
    IF s # <<>> /\ s[Len(s)] = " " THEN rstrip(SubSeq(s, 1, Len(s) - 1)) ELSE s

strip(s) == rstrip(lstrip(s))

\* s < t for str: lexicographic by code point
RECURSIVE StrLess(_, _)
StrLess(s, t) ==
    IF t = <<>> THEN FALSE
    ELSE IF s = <<>> THEN TRUE
    ELSE IF s[1] = t[1] THEN StrLess(Tail(s), Tail(t))
    ELSE Ord(s[1]) < Ord(t[1])

\* s.startswith(p)
StartsWith(s, p) == Len(p) <= Len(s) /\ SubSeq(s, 1, Len(p)) = p

\* p in s
Contains(s, p) == \E i \in 0..(Len(s) - Len(p)) : SubSeq(s, i + 1, i + Len(p)) = p

\* ------------------------------------------------------- progress ledger
EmptyDict == [k \in {} |-> None]

\* d[k] = v on a dict
DictSet(d, k, v) == [x \in (DOMAIN d) \cup {k} |-> IF x = k THEN v ELSE d[x]]

\* the ledger load_progress returns when there is no file
FreshProgress ==
    [completed |-> EmptyDict, errors |-> EmptyDict,
     started_at |-> None, last_updated |-> None]

\* json.dump(progress, f): the chunks written to the file, in order
json_dump_progress(progress) ==
    << [part |-> "{", value |-> None],
       [part |-> "completed", value |-> progress.completed],
       [part |-> "errors", value |-> progress.errors],
       [part |-> "started_at", value |-> progress.started_at],
       [part |-> "last_updated", value |-> progress.last_updated],
       [part |-> "}", value |-> None] >>

\* json.load(f) succeeds only on a complete document
json_complete(text) ==
    /\ Len(text) = 6
    /\ text[1].part = "{"
    /\ text[6].part = "}"

json_load_progress(text) ==
    [completed |-> text[2].value, errors |-> text[3].value,
     started_at |-> text[4].value, last_updated |-> text[5].value]

\* load_progress succeeds (json.load raises on an empty or partial file)
load_ok(file) == (~file.exists) \/ json_complete(file.text)

load_progress(file) ==
    IF file.exists THEN json_load_progress(file.text) ELSE FreshProgress

\* mutant of stamp_progress: started_at is set on every save
stamp_progress_always(progress, t) ==
    [progress EXCEPT !.last_updated = Some(t), !.started_at = Some(t)]

\* mutant of stamp_progress: last_updated is set only while it is unset
stamp_progress_once(progress, t) ==
    IF Falsy(progress.last_updated)
    THEN [progress EXCEPT !.last_updated = Some(t), !.started_at = Some(t)]
    ELSE progress

\* the ledger as save_progress leaves it in memory, t the value of now()
stamp_progress(progress, t) ==
    LET p1 == [progress EXCEPT !.last_updated = Some(t)]
    IN  IF Falsy(p1.started_at) THEN [p1 EXCEPT !.started_at = p1.last_updated]
        ELSE p1

\* the file after save_progress has run to its end
saved_file(progress) == [exists |-> TRUE, text |-> json_dump_progress(progress)]

NoFile == [exists |-> FALSE, text |-> <<>>]

\* ------------------------------------------------------------- manifest
Categories == { <<"A">>, <<"B">> }

\* a ScenarioManifestEntry
Entry(id, cat, act) ==
    [id |-> id, name |-> <<"S">> \o str(id), category |-> cat,
     is_active |-> act, filename |-> str(id) \o <<"_", "b", "p">>]

Entries == { Entry(i, c, a) : i \in 1..MaxId, c \in Categories, a \in BOOLEAN }

\* every manifest of at most MaxId entries with unique ids
Manifests ==
    { m \in UNION { [1..n -> Entries] : n \in 0..MaxId } :
        \A i, j \in DOMAIN m : m[i].id = m[j].id => i = j }

\* the manifest of the specification's worked example
ExampleManifest ==
    << Entry(1, <<"A">>, TRUE), Entry(2, <<"A">>, FALSE), Entry(3, <<"B">>, TRUE) >>

NoManifest == [exists |-> FALSE, scenarios |-> <<>>]
ManifestOf(m) == [exists |-> TRUE, scenarios |-> m]

\* ------------------------------------------------------------ cmd_complete
\* names in DOCS_DIR for a scenario: its document, and the document of the
\* scenario whose id has this id as a prefix (always there)
DocName(id) == str(id) \o <<"_", "d", "o", "c">>
DecoyName(id) == str(10 * id) \o <<"_", "d", "o", "c">>
DocListings(id) == { {DecoyName(id)}, {DocName(id), DecoyName(id)} }
FindingName(id) == str(id) \o <<"_", "f", "i", "n", "d">>
FindingListings(id) == SUBSET {FindingName(id)}

\* dir.glob(f"{scenario_id}_*.md")
glob(listing, scenario_id) ==
    { f \in listing : StartsWith(f, str(scenario_id) \o <<"_">>) }

\* what the operator may type at the prompt
Answers == { <<"s">>, <<"S">>, <<" ", "s", " ">>, <<"n">>, <<"s", "i">>, <<>> }

\* mutant of confirm_of: only the first letter of the answer is looked at
confirm_of_first_letter(answer) ==
    SubSeq(lower(strip(answer)), 1, Min(1, Len(strip(answer))))

\* input(...).strip().lower()
confirm_of(answer) == lower(strip(answer))

\* mutant of mark_completed: the dict is rebuilt from the new record alone
mark_completed_alone(progress, scenario_id, rec) ==
    [progress EXCEPT !.completed = DictSet(EmptyDict, str(scenario_id), rec)]

\* progress["completed"][str(scenario_id)] = {...}
mark_completed(progress, scenario_id, rec) ==
    [progress EXCEPT !.completed = DictSet(progress.completed, str(scenario_id), rec)]

NoResult == [cmd |-> "none", status |-> "none", arg |-> 0, asked |-> None, out |-> <<>>]

\* the progress line cmd_complete prints after saving
complete_report(mf, progress, scenario_id, asked) ==
    LET total == Len(mf.scenarios)
        done == Cardinality(DOMAIN progress.completed)
    IN  IF ~mf.exists
        THEN [cmd |-> "complete", status |-> "exit1", arg |-> scenario_id,
              asked |-> asked, out |-> <<>>]
        ELSE IF total = 0
        THEN [cmd |-> "complete", status |-> "ZeroDivisionError", arg |-> scenario_id,
              asked |-> asked, out |-> <<>>]
        ELSE [cmd |-> "complete", status |-> "ok", arg |-> scenario_id,
              asked |-> asked, out |-> <<done, total, (done * 100) \div total>>]

\* cmd_complete(scenario_id), run to its end: doc_file and finding_file are the
\* first glob matches (or None), answer is what the operator types when asked,
\* t1 and t2 the two readings of the clock
cmd_complete(file, mf, scenario_id, doc_file, finding_file, answer, t1, t2) ==
    LET progress == load_progress(file)
        asked == IF IsNone(doc_file) THEN Some(answer) ELSE None
    IN  IF ~load_ok(file)
        THEN [file |-> file, now |-> now,
              result |-> [cmd |-> "complete", status |-> "JSONDecodeError",
                          arg |-> scenario_id, asked |-> None, out |-> <<>>]]
        ELSE IF IsNone(doc_file) /\ confirm_of(answer) # <<"s">>
        THEN [file |-> file, now |-> now,
              result |-> [cmd |-> "complete", status |-> "cancelled",
                          arg |-> scenario_id, asked |-> asked, out |-> <<>>]]
        ELSE LET rec == [completed_at |-> t1, doc_file |-> doc_file,
                         findings_file |-> finding_file]
                 saved == stamp_progress(mark_completed(progress, scenario_id, rec), t2)
             IN  [file |-> saved_file(saved), now |-> t2,
                  result |-> complete_report(mf, saved, scenario_id, asked)]

\* list(...)[0] if the list is not empty else None: glob's order is the
\* directory's, so any match can come first
Firsts(matches) == IF matches = {} THEN {None} ELSE { Some(f) : f \in matches }

\* cmd_complete(scenario_id) as one step, the directory listings and the
\* operator's answer drawn from the given sets
CompleteWith(scenario_id, docListings, findingListings, answers) ==
    /\ \E docs \in docListings, findings \in findingListings :
       \E doc_file \in Firsts(glob(docs, scenario_id)),
          finding_file \in Firsts(glob(findings, scenario_id)) :
       \E answer \in (IF IsNone(doc_file) THEN answers ELSE {<<>>}) :
       \E t1 \in now..MaxClock : \E t2 \in t1..MaxClock :
          LET r == cmd_complete(progressFile, manifestFile, scenario_id,
                                doc_file, finding_file, answer, t1, t2)
          IN  /\ progressFile' = r.file
              /\ now' = r.now
              /\ result' = r.result
    /\ UNCHANGED <<manifestFile, taskVars, procs>>

Complete(scenario_id) ==
    CompleteWith(scenario_id, DocListings(scenario_id),
                 FindingListings(scenario_id), Answers)

\* complete for a scenario whose document was written and no findings
CompleteDocumented(scenario_id) ==
    CompleteWith(scenario_id, {{DocName(scenario_id), DecoyName(scenario_id)}},
                 {{}}, Answers)

\* ------------------------------------------------- save_progress, stopped
\* the file when the process stops inside save_progress: open(..., "w") has
\* truncated it and the first k chunks of json.dump have reached it
stopped_file(progress, k) ==
    [exists |-> TRUE, text |-> SubSeq(json_dump_progress(progress), 1, k)]

\* cmd_complete(scenario_id), its document written, whose process stops
\* between the open of save_progress and the end of the write
CompleteStopped(scenario_id) ==
    /\ load_ok(progressFile)
    /\ \E t1 \in now..MaxClock : \E t2 \in t1..MaxClock :
          LET rec == [completed_at |-> t1, doc_file |-> Some(DocName(scenario_id)),
                      findings_file |-> None]
              saved == stamp_progress(
                          mark_completed(load_progress(progressFile), scenario_id, rec), t2)
          IN  \E k \in 0..(Len(json_dump_progress(saved)) - 1) :
                 /\ progressFile' = stopped_file(saved, k)
                 /\ now' = t2
                 /\ result' = [cmd |-> "complete", status |-> "stopped",
                               arg |-> scenario_id, asked |-> None, out |-> <<saved>>]
    /\ UNCHANGED <<manifestFile, taskVars, procs>>

\* ---------------------------------------------------------------- cmd_next
\* mutant of sort_key: the activity flag is left out of the key
sort_key_no_flag(s) == <<0, s.category, s.id>>

\* the sort key (0 if s.get("is_active") else 1, s["category"], s["id"])
sort_key(s) == <<IF s.is_active THEN 0 ELSE 1, s.category, s.id>>

\* a < b for two sort keys, as Python compares tuples
key_less(a, b) ==
    \/ a[1] < b[1]
    \/ a[1] = b[1] /\ StrLess(a[2], b[2])
    \/ a[1] = b[1] /\ a[2] = b[2] /\ a[3] < b[3]

\* insert s after the entries of the sorted list whose key is not greater
RECURSIVE insert_sorted(_, _)
insert_sorted(sorted, s) ==
    IF sorted = <<>> THEN <<s>>
    ELSE IF key_less(sort_key(s), sort_key(sorted[1])) THEN <<s>> \o sorted
    ELSE <<sorted[1]>> \o insert_sorted(Tail(sorted), s)

\* list.sort(key=...): stable
RECURSIVE sort_pending(_)
sort_pending(list) ==
    IF list = <<>> THEN <<>>
    ELSE insert_sorted(sort_pending(SubSeq(list, 1, Len(list) - 1)), list[Len(list)])

\* [s for s in scenarios if str(s["id"]) not in completed]
pending_of(scenarios, completed) ==
    SelectSeq(scenarios, LAMBDA s : str(s.id) \notin DOMAIN completed)

\* list[:count]
slice_to(list, count) ==
    IF count >= 0 THEN SubSeq(list, 1, Min(count, Len(list)))
    ELSE SubSeq(list, 1, Max(Len(list) + count, 0))

\* the list cmd_next returns
next_ids(scenarios, completed, count) ==
    LET pending == sort_pending(pending_of(scenarios, completed))
        next_batch == slice_to(pending, count)
    IN  IF pending = <<>> THEN <<>>
        ELSE [i \in 1..Len(next_batch) |-> next_batch[i].id]

cmd_next(file, mf, count) ==
    IF ~mf.exists
    THEN [cmd |-> "next", status |-> "exit1", arg |-> count, asked |-> None, out |-> <<>>]
    ELSE IF ~load_ok(file)
    THEN [cmd |-> "next", status |-> "JSONDecodeError", arg |-> count,
          asked |-> None, out |-> <<>>]
    ELSE [cmd |-> "next", status |-> "ok", arg |-> count, asked |-> None,
          out |-> next_ids(mf.scenarios, load_progress(file).completed, count)]

NextCmd(count) ==
    /\ result' = cmd_next(progressFile, manifestFile, count)
    /\ UNCHANGED <<manifestFile, progressFile, now, taskVars, procs>>

\* -------------------------------------------------------------- cmd_status
status_report(scenarios, completed) ==
    LET total == Len(scenarios)
        done == Cardinality(DOMAIN completed)
        active_count == Cardinality({i \in DOMAIN scenarios : scenarios[i].is_active})
        active_done ==
            Cardinality({i \in DOMAIN scenarios :
                scenarios[i].is_active /\ str(scenarios[i].id) \in DOMAIN completed})
    IN  [total |-> total, done |-> done,
         percent |-> IF total # 0 THEN (done * 100) \div total ELSE 0,
         pending |-> total - done,
         active_done |-> active_done, active_count |-> active_count,
         inactive_done |-> done - active_done,
         inactive_count |-> total - active_count]

cmd_status(file, mf) ==
    IF ~mf.exists
    THEN [cmd |-> "status", status |-> "exit1", arg |-> 0, asked |-> None, out |-> <<>>]
    ELSE IF ~load_ok(file)
    THEN [cmd |-> "status", status |-> "JSONDecodeError", arg |-> 0,
          asked |-> None, out |-> <<>>]
    ELSE [cmd |-> "status", status |-> "ok", arg |-> 0, asked |-> None,
          out |-> status_report(mf.scenarios, load_progress(file).completed)]

Status ==
    /\ result' = cmd_status(progressFile, manifestFile)
    /\ UNCHANGED <<manifestFile, progressFile, now, taskVars, procs>>

\* --------------------------------------------------------- save(load())
\* save_progress(load_progress()) with nothing changed in between
SaveLoaded ==
    /\ load_ok(progressFile)
    /\ \E t \in now..MaxClock :
          /\ progressFile' = saved_file(stamp_progress(load_progress(progressFile), t))
          /\ now' = t
    /\ result' = [cmd |-> "save", status |-> "ok", arg |-> 0, asked |-> None, out |-> <<>>]
    /\ UNCHANGED <<manifestFile, taskVars, procs>>

\* ------------------------------------------- concurrent cmd_complete
\* two `complete` commands started as separate processes
Procs == {1, 2}

\* a process that was not started
IdleProc ==
    [pc |-> "idle", scenario_id |-> 0, progress |-> FreshProgress,
     after |-> {}, status |-> "none"]

NoProcs == [p \in Procs |-> IdleProc]

\* mutant of loaded_and_marked: the entry is put into a fresh ledger
loaded_and_marked_fresh(file, scenario_id, rec) ==
    mark_completed(FreshProgress, scenario_id, rec)

\* progress after load_progress() and the assignment of the new entry
loaded_and_marked(file, scenario_id, rec) ==
    mark_completed(load_progress(file), scenario_id, rec)

\* the processes whose save_progress has returned
Saved ==
    { q \in Procs : \/ procs[q].pc = "report"
                    \/ procs[q].pc = "done" /\ procs[q].status # "JSONDecodeError" }

\* process p: load_progress(), the globs (the document is there) and the
\* assignment progress["completed"][str(scenario_id)] = {...}
RaceLoad(p) ==
    /\ procs[p].pc = "start"
    /\ IF ~load_ok(progressFile)
       THEN /\ procs' = [procs EXCEPT ![p].pc = "done", ![p].status = "JSONDecodeError"]
            /\ UNCHANGED now
       ELSE \E t1 \in now..MaxClock :
              LET rec == [completed_at |-> t1,
                          doc_file |-> Some(DocName(procs[p].scenario_id)),
                          findings_file |-> None]
              IN  /\ procs' = [procs EXCEPT
                        ![p].pc = "save",
                        ![p].progress = loaded_and_marked(progressFile,
                                                          procs[p].scenario_id, rec),
                        ![p].after = Saved]
                  /\ now' = t1
    /\ UNCHANGED <<manifestFile, progressFile, result, taskVars>>

\* process p: save_progress up to open(PROGRESS_FILE, "w"), which truncates
RaceOpen(p) ==
    /\ procs[p].pc = "save"
    /\ \E t2 \in now..MaxClock :
          /\ procs' = [procs EXCEPT ![p].pc = "write",
                                    ![p].progress = stamp_progress(@, t2)]
          /\ now' = t2
    /\ progressFile' = stopped_file(procs[p].progress, 0)
    /\ UNCHANGED <<manifestFile, result, taskVars>>

\* process p: json.dump and the close of the file
RaceWrite(p) ==
    /\ procs[p].pc = "write"
    /\ progressFile' = saved_file(procs[p].progress)
    /\ procs' = [procs EXCEPT ![p].pc = "report", ![p].status = "saved"]
    /\ UNCHANGED <<manifestFile, now, result, taskVars>>

\* process p: the two lines printed after the save
RaceReport(p) ==
    /\ procs[p].pc = "report"
    /\ result' = complete_report(manifestFile, procs[p].progress,
                                 procs[p].scenario_id, None)
    /\ procs' = [procs EXCEPT ![p].pc = "done", ![p].status = result'.status]
    /\ UNCHANGED <<manifestFile, progressFile, now, taskVars>>

\* ------------------------------------------------------------ blueprints
\* json.dumps of a str and of a dict key
json_str(s) == <<"\"">> \o s \o <<"\"">>
json_key(k) == json_str(k) \o <<":", " ">>

K_flow == <<"f", "l", "o", "w">>
K_module == <<"m", "o", "d", "u", "l", "e">>
K_routes == <<"r", "o", "u", "t", "e", "s">>
K_scenario == <<"s", "c", "e", "n", "a", "r", "i", "o">>
K_label == <<"l", "a", "b", "e", "l">>

\* a route that carries no nested flow
NoFlowRoute == [label |-> <<"r">>]

\* route.get("flow", [])
route_flow(route) == IF "flow" \in DOMAIN route THEN route.flow ELSE <<>>

\* blueprint.get("flow", [])
blueprint_flow(blueprint) == IF "flow" \in DOMAIN blueprint THEN blueprint.flow ELSE <<>>

\* mutant of count_modules: the nested flows are not counted
count_modules_flat(flow) == Len(flow)

\* count_modules(flow) of prepare_task
RECURSIVE count_modules(_)
count_modules(flow) ==
    LET count_routes[n \in 0..Len(flow[1].routes)] ==
            IF n = 0 THEN 0
            ELSE count_routes[n - 1] + count_modules(route_flow(flow[1].routes[n]))
    IN  IF flow = <<>> THEN 0
        ELSE 1 + (IF "routes" \in DOMAIN flow[1]
                  THEN count_routes[Len(flow[1].routes)] ELSE 0)
               + count_modules(Tail(flow))

\* json.dumps(blueprint): a node is {"module": ..., "scenario": ..., "routes": [...]}
\* with the keys it has, a scenario parameter is a number or a string
RECURSIVE dumps_flow(_)
dumps_flow(flow) ==
    LET dumps_route(route) ==
            IF "flow" \in DOMAIN route
            THEN <<"{">> \o json_key(K_flow) \o <<"[">> \o dumps_flow(route.flow) \o <<"]", "}">>
            ELSE <<"{">> \o json_key(K_label) \o json_str(route.label) \o <<"}">>
        dumps_routes[n \in 0..(IF flow # <<>> /\ "routes" \in DOMAIN flow[1]
                               THEN Len(flow[1].routes) ELSE 0)] ==
            IF n = 0 THEN <<>>
            ELSE dumps_routes[n - 1] \o (IF n > 1 THEN <<",", " ">> ELSE <<>>)
                    \o dumps_route(flow[1].routes[n])
        dumps_node(node) ==
            <<"{">> \o json_key(K_module) \o json_str(node.module)
              \o (IF "scenario" \in DOMAIN node
                  THEN <<",", " ">> \o json_key(K_scenario)
                         \o (IF node.scenario.is_str THEN json_str(str(node.scenario.n))
                             ELSE str(node.scenario.n))
                  ELSE <<>>)
              \o (IF "routes" \in DOMAIN node
                  THEN <<",", " ">> \o json_key(K_routes) \o <<"[">>
                         \o dumps_routes[Len(node.routes)] \o <<"]">>
                  ELSE <<>>)
              \o <<"}">>
    IN  IF flow = <<>> THEN <<>>
        ELSE dumps_node(flow[1])
               \o (IF Len(flow) > 1 THEN <<",", " ">> ELSE <<>>)
               \o dumps_flow(Tail(flow))

dumps_blueprint(blueprint) ==
    IF "flow" \in DOMAIN blueprint
    THEN <<"{">> \o json_key(K_flow) \o <<"[">> \o dumps_flow(blueprint.flow) \o <<"]", "}">>
    ELSE <<"{">> \o json_key(K_label) \o json_str(blueprint.label) \o <<"}">>

\* ------------------------------------------------------- table detection
\* load_schema(): None when SCHEMA_FILE is absent
load_schema(file) == IF file.exists THEN Some([tables |-> file.tables]) ELSE None

\* `not schema or not schema.get("tables")`
no_tables(schema) == IsNone(schema) \/ Val(schema).tables = <<>>

\* extract_tables_from_blueprint(blueprint), reading SCHEMA_FILE itself
extract_tables_from_blueprint(blueprint, file) ==
    LET bp_str == lower(dumps_blueprint(blueprint))
        schema == load_schema(file)
        tables == Val(schema).tables
        found[n \in 0..(IF no_tables(schema) THEN 0 ELSE Len(tables))] ==
            IF n = 0 THEN <<>>
            ELSE IF Contains(bp_str, lower(tables[n].name))
                 THEN Append(found[n - 1], tables[n].name)
                 ELSE found[n - 1]
    IN  IF no_tables(schema) THEN <<>> ELSE found[Len(tables)]

\* `x in list`
InList(x, list) == \E i \in DOMAIN list : list[i] = x

\* get_relevant_schema(table_names, schema)
get_relevant_schema(table_names, schema) ==
    IF no_tables(schema) THEN None
    ELSE Some(SelectSeq(Val(schema).tables, LAMBDA table : InList(table.name, table_names)))

\* --------------------------------------------------- subscenario detection
IsDigit(c) == c \in {"0", "1", "2", "3", "4", "5", "6", "7", "8", "9"}

ScenarioKeyText == json_str(K_scenario) \o <<":">>
CallMarker == <<"C", "a", "l", "l", "S", "c", "e", "n", "a", "r", "i", "o">>

\* \s* from i: where the run of spaces ends
RECURSIVE spaces_end(_, _)
spaces_end(text, i) ==
    IF i <= Len(text) /\ text[i] = " " THEN spaces_end(text, i + 1) ELSE i

\* \d+ from i: where the run of digits ends
RECURSIVE digits_end(_, _)
digits_end(text, i) ==
    IF i <= Len(text) /\ IsDigit(text[i]) THEN digits_end(text, i + 1) ELSE i

\* where the digits of a match of r'"scenario":\s*"?(\d+)"?' at `from` start
\* and end; the pattern matches when the digits are not empty
ref_span(text, from) ==
    LET afterKey == spaces_end(text, from + Len(ScenarioKeyText))
        start == IF afterKey <= Len(text) /\ text[afterKey] = "\"" THEN afterKey + 1
                 ELSE afterKey
    IN  [start |-> start, stop |-> digits_end(text, start)]

ref_matches(text, from) ==
    /\ from + Len(ScenarioKeyText) - 1 <= Len(text)
    /\ SubSeq(text, from, from + Len(ScenarioKeyText) - 1) = ScenarioKeyText
    /\ ref_span(text, from).stop > ref_span(text, from).start

\* re.findall(r'"scenario":\s*"?(\d+)"?', bp_str): the digit groups, in the
\* order of the text (two matches cannot overlap: each starts with the key)
find_scenario_refs(text) ==
    LET at == { i \in 1..Len(text) : ref_matches(text, i) }
        RECURSIVE from_left(_)
        from_left(rest) ==
            IF rest = {} THEN <<>>
            ELSE LET i == CHOOSE x \in rest : \A y \in rest : x <= y
                 IN  <<SubSeq(text, ref_span(text, i).start, ref_span(text, i).stop - 1)>>
                        \o from_left(rest \ {i})
    IN  from_left(at)

\* the scenario ids a blueprint of the model can refer to
RefUniverse == { str(7), str(12) }

\* the orders in which a set of str is iterated: one per hash seed of the
\* process (PYTHONHASHSEED), each an order of all the strings
HashOrders ==
    { o \in [1..Cardinality(RefUniverse) -> RefUniverse] :
        \A i, j \in DOMAIN o : o[i] = o[j] => i = j }

\* list(set(refs)) in a process whose hash seed gives `order`
list_of_set(refs, order) == SelectSeq(order, LAMBDA r : InList(r, refs))

\* subscenarios of prepare_task
detect_subscenarios(blueprint, order) ==
    LET bp_str == dumps_blueprint(blueprint)
    IN  IF Contains(bp_str, CallMarker)
        THEN list_of_set(find_scenario_refs(bp_str), order)
        ELSE <<>>

\* ------------------------------------------------------------ prepare_task
NoSchema == [exists |-> FALSE, tables |-> <<>>]
SchemaOf(tables) == [exists |-> TRUE, tables |-> tables]

\* a flow-definition file: absent, not JSON, or a blueprint
FlowMissing == [state |-> "missing", blueprint |-> [label |-> <<>>]]
FlowCorrupt == [state |-> "corrupt", blueprint |-> [label |-> <<>>]]
FlowOf(blueprint) == [state |-> "ok", blueprint |-> blueprint]

\* the task dict prepare_task writes, t the value of now()
build_task(scenario, blueprint, file, schema, order, t) ==
    LET table_names == extract_tables_from_blueprint(blueprint, file)
    IN  [scenario_id |-> scenario.id,
         scenario_name |-> scenario.name,
         category |-> scenario.category,
         is_active |-> scenario.is_active,
         type |-> IF "type" \in DOMAIN scenario THEN scenario.type ELSE "scenario",
         module_count |-> count_modules(blueprint_flow(blueprint)),
         tables_detected |-> table_names,
         subscenarios_detected |-> detect_subscenarios(blueprint, order),
         blueprint |-> blueprint,
         relevant_db_schema |->
             IF ~IsNone(schema) THEN get_relevant_schema(table_names, schema) ELSE None,
         prepared_at |-> t]

\* what prepare_task does for one scenario: "OK" (True), "SKIP" (False) or
\* "ERROR" (json.load raises)
prepare_outcome(flowFile) ==
    CASE flowFile.state = "missing" -> "SKIP"
      [] flowFile.state = "corrupt" -> "ERROR"
      [] OTHER -> "OK"

\* ----------------------------------------------------------- prepare_tasks
\* the scenarios prepare_tasks selects
select_scenarios(scenarios, scenario_filter, active_only) ==
    LET s1 == IF active_only THEN SelectSeq(scenarios, LAMBDA s : s.is_active)
              ELSE scenarios
    IN  IF ~IsNone(scenario_filter) /\ Val(scenario_filter) # 0
        THEN SelectSeq(s1, LAMBDA s : s.id = Val(scenario_filter))
        ELSE s1

\* mutant of batch_loop: the first scenario that fails ends the batch
RECURSIVE batch_loop_abort(_, _, _, _, _, _, _)
batch_loop_abort(scenarios, i, flows, file, order, times, acc) ==
    IF i > Len(scenarios) THEN acc
    ELSE LET scenario == scenarios[i]
             outcome == prepare_outcome(flows[scenario.id])
             log == Append(acc.log, [id |-> scenario.id, outcome |-> outcome])
         IN  IF outcome = "OK"
             THEN batch_loop_abort(scenarios, i + 1, flows, file, order, times,
                    [acc EXCEPT !.log = log, !.success = @ + 1,
                       !.tasks[scenario.id] =
                          Some(build_task(scenario, flows[scenario.id].blueprint,
                                          file, load_schema(file), order, times[i]))])
             ELSE [acc EXCEPT !.log = log, !.errors = @ + 1]

\* the loop of prepare_tasks from scenario i on: acc holds the counts, the
\* lines printed and the task files
RECURSIVE batch_loop(_, _, _, _, _, _, _)
batch_loop(scenarios, i, flows, file, order, times, acc) ==
    IF i > Len(scenarios) THEN acc
    ELSE LET scenario == scenarios[i]
             outcome == prepare_outcome(flows[scenario.id])
             log == Append(acc.log, [id |-> scenario.id, outcome |-> outcome])
         IN  IF outcome = "OK"
             THEN batch_loop(scenarios, i + 1, flows, file, order, times,
                    [acc EXCEPT !.log = log, !.success = @ + 1,
                       !.tasks[scenario.id] =
                          Some(build_task(scenario, flows[scenario.id].blueprint,
                                          file, load_schema(file), order, times[i]))])
             ELSE batch_loop(scenarios, i + 1, flows, file, order, times,
                    [acc EXCEPT !.log = log, !.errors = @ + 1])

\* the readings of the clock of a batch of n scenarios
BatchTimes(n) ==
    { ts \in [1..n -> now..MaxClock] : \A i, j \in 1..n : i <= j => ts[i] <= ts[j] }

\* prepare_tasks(scenario_filter, active_only), run to its end
PrepareTasks(scenario_filter, active_only) ==
    LET selected == select_scenarios(manifestFile.scenarios, scenario_filter, active_only)
        selected_ids == [i \in DOMAIN selected |-> selected[i].id]
    IN  /\ IF ~manifestFile.exists
           THEN /\ result' = [cmd |-> "prepare", status |-> "exit1", arg |-> selected_ids,
                              asked |-> None, out |-> <<>>]
                /\ UNCHANGED <<tasksDir, now>>
           ELSE IF selected = <<>>
           THEN /\ result' = [cmd |-> "prepare", status |-> "none selected",
                              arg |-> selected_ids, asked |-> None, out |-> <<>>]
                /\ UNCHANGED <<tasksDir, now>>
           ELSE \E order \in HashOrders, times \in BatchTimes(Len(selected)) :
                  LET done == batch_loop(selected, 1, flowFiles, schemaFile, order, times,
                                [log |-> <<>>, success |-> 0, errors |-> 0,
                                 tasks |-> tasksDir])
                  IN  /\ tasksDir' = done.tasks
                      /\ now' = times[Len(selected)]
                      /\ result' = [cmd |-> "prepare", status |-> "ok",
                                    arg |-> selected_ids, asked |-> None,
                                    out |-> [log |-> done.log, success |-> done.success,
                                             errors |-> done.errors]]
        /\ UNCHANGED <<manifestFile, progressFile, flowFiles, schemaFile, procs>>

\* ------------------------------------------------------ builder inputs
\* the modules of the model: a plain one, two that call a scenario (the id a
\* number, the id a string) and one whose name holds a table name
PlainNode == [module |-> <<"l", "o", "g", "i", "n">>]
CallNode == [module |-> <<"C", "a", "l", "l", "S", "c", "e", "n", "a", "r", "i", "o">>, scenario |-> [is_str |-> FALSE, n |-> 7]]
CallStrNode == [module |-> <<"C", "a", "l", "l", "S", "c", "e", "n", "a", "r", "i", "o">>, scenario |-> [is_str |-> TRUE, n |-> 12]]
TableNode == [module |-> <<"U", "s", "e", "r", "s">>, scenario |-> [is_str |-> TRUE, n |-> 7]]
NodeKinds == {PlainNode, CallNode, CallStrNode, TableNode}

\* the flow trees of a given size (nodes plus routes), every node plain
RECURSIVE FlowsOfSize(_)
FlowsOfSize(size) ==
    LET RoutesOfSize(k) ==
            IF k = 1 THEN {NoFlowRoute, [flow |-> <<>>]}
            ELSE { [flow |-> f] : f \in FlowsOfSize(k - 1) }
        RouteLists[m \in 0..size] ==
            IF m = 0 THEN {<<>>}
            ELSE UNION { { <<r>> \o rest : r \in RoutesOfSize(k), rest \in RouteLists[m - k] }
                         : k \in 1..m }
        NodesOfSize(k) ==
            (IF k = 1 THEN {PlainNode} ELSE {})
              \cup { [module |-> PlainNode.module, routes |-> rl] : rl \in RouteLists[k - 1] }
    IN  IF size = 0 THEN {<<>>}
        ELSE UNION { { <<n>> \o rest : n \in NodesOfSize(k), rest \in FlowsOfSize(size - k) }
                     : k \in 1..size }

\* the flat flows of at most MaxFlat nodes, of every kind
FlatFlows == UNION { [1..n -> NodeKinds] : n \in 1..MaxFlat }

\* blueprints: every tree within MaxSize, and one without a flow
TreeBlueprints ==
    { [flow |-> f] : f \in UNION { FlowsOfSize(k) : k \in 0..MaxSize } }
      \cup { [label |-> <<"b">>] }

\* blueprints: every flat flow within MaxFlat
FlatBlueprints == { [flow |-> f] : f \in FlatFlows }

\* TableDescriptors
Table(schema, name) ==
    [schema |-> schema, name |-> name,
     columns |-> << [name |-> <<"i", "d">>, type |-> "integer"] >>]

\* SCHEMA_FILE: absent, the placeholder dump_schema writes without a
\* database, and dumps of the schemas auth and public
SupabaseSchema ==
    SchemaOf(<< Table("auth", <<"u", "s", "e", "r", "s">>), Table("public", <<"l", "o", "g">>), Table("public", <<"u", "s", "e", "r", "s">>) >>)

SchemaFiles ==
    { NoSchema,
      SchemaOf(<<>>),
      SupabaseSchema,
      SchemaOf(<< Table("public", <<"o", "r", "d", "e", "r", "s">>), Table("public", <<"u", "s", "e", "r", "s">>) >>),
      SchemaOf(<< Table("public", <<"L", "o", "g">>), Table("public", <<"o", "r", "d", "e", "r", "s">>) >>) }

\* ------------------------------------------------------------ ledger spec
\* the ids complete is called with: one of the example manifest, one outside
LedgerIds == {1, 4}

Init ==
    /\ manifestFile \in {NoManifest, ManifestOf(<<>>), ManifestOf(ExampleManifest)}
    /\ progressFile = NoFile
    /\ now = 1
    /\ result = NoResult
    /\ flowFiles = [id \in 1..3 |->
                      CASE id = 1 -> FlowOf([flow |-> <<CallNode>>])
                        [] id = 2 -> FlowMissing
                        [] OTHER -> FlowCorrupt]
    /\ schemaFile = NoSchema
    /\ tasksDir = [id \in 1..3 |-> None]
    /\ procs = NoProcs

Next ==
    \/ \E id \in LedgerIds : Complete(id)
    \/ \E count \in (-1)..MaxCount : NextCmd(count)
    \/ Status
    \/ SaveLoaded
    \/ PrepareTasks(None, FALSE)

Spec == Init /\ [][Next]_vars

\* ------------------------------------------------------------- crash spec
\* the commands of the ledger, a complete being stopped during its save or not
NextCrash ==
    \/ \E id \in LedgerIds : CompleteDocumented(id)
    \/ \E id \in LedgerIds : CompleteStopped(id)
    \/ \E count \in (-1)..MaxCount : NextCmd(count)
    \/ Status

SpecCrash == Init /\ [][NextCrash]_vars

\* -------------------------------------------------------------- race spec
\* two `complete` processes for different scenarios of the example manifest,
\* their steps in any order
InitRace ==
    /\ manifestFile = ManifestOf(ExampleManifest)
    /\ progressFile = NoFile
    /\ now = 1
    /\ result = NoResult
    /\ flowFiles = [id \in 1..3 |-> FlowMissing]
    /\ schemaFile = NoSchema
    /\ tasksDir = [id \in 1..3 |-> None]
    /\ \E ids \in [Procs -> 1..MaxId] :
          /\ \A p, q \in Procs : ids[p] = ids[q] => p = q
          /\ procs = [p \in Procs |-> [IdleProc EXCEPT !.pc = "start",
                                                       !.scenario_id = ids[p]]]

NextRace ==
    \E p \in Procs :
        \/ RaceLoad(p)
        \/ RaceOpen(p)
        \/ RaceWrite(p)
        \/ RaceReport(p)

SpecRace == InitRace /\ [][NextRace]_vars

\* --------------------------------------------------------- scheduler spec
\* every manifest within the bounds, the ledger grown by complete
InitNext ==
    /\ manifestFile \in {NoManifest} \cup { ManifestOf(m) : m \in Manifests }
    /\ progressFile = NoFile
    /\ now = MaxClock
    /\ result = NoResult
    /\ flowFiles = [id \in 1..MaxId |-> FlowMissing]
    /\ schemaFile = NoSchema
    /\ tasksDir = [id \in 1..MaxId |-> None]
    /\ procs = NoProcs

NextSched ==
    \/ \E id \in 1..MaxId : CompleteDocumented(id)
    \/ \E count \in (-1)..MaxCount : NextCmd(count)

SpecNext == InitNext /\ [][NextSched]_vars

\* ------------------------------------------------------------- batch spec
\* the example manifest, each flow-definition file absent, not JSON or a
\* blueprint, and every filter of `prepare`
InitBatch ==
    /\ manifestFile = ManifestOf(ExampleManifest)
    /\ progressFile = NoFile
    /\ now = 1
    /\ result = NoResult
    /\ flowFiles \in [1..3 -> {FlowMissing, FlowCorrupt, FlowOf([flow |-> <<CallNode>>])}]
    /\ schemaFile = NoSchema
    /\ tasksDir = [id \in 1..3 |-> None]
    /\ procs = NoProcs

\* `prepare --id`: absent, or an id (4 is in no manifest)
FilterIds == {None} \cup { Some(i) : i \in 0..4 }

NextBatch ==
    \E scenario_filter \in FilterIds, active_only \in BOOLEAN :
        PrepareTasks(scenario_filter, active_only)

SpecBatch == InitBatch /\ [][NextBatch]_vars

\* -------------------------------------------------------------- task spec
\* one scenario: every tree with no schema file and with the dump of a
\* Supabase database, every flat flow with every schema file
InitTask ==
    /\ manifestFile = ManifestOf(<<Entry(1, <<"A">>, TRUE)>>)
    /\ progressFile = NoFile
    /\ now = 1
    /\ result = NoResult
    /\ \/ /\ flowFiles \in [{1} -> { FlowOf(b) : b \in TreeBlueprints }]
          /\ schemaFile \in {NoSchema, SupabaseSchema}
       \/ /\ flowFiles \in [{1} -> { FlowOf(b) : b \in FlatBlueprints }]
          /\ schemaFile \in SchemaFiles
    /\ tasksDir = [id \in {1} |-> None]
    /\ procs = NoProcs

NextTask == PrepareTasks(Some(1), FALSE)

SpecTask == InitTask /\ [][NextTask]_vars

\* ------------------------------------------------------------------ claims
\* the keys of `completed` in the persisted ledger
CompletedKeys(file) == DOMAIN load_progress(file).completed

\* C1: the key set of `completed` never shrinks; a complete that went through
\* leaves str(id) among the keys, and next returns no id that is a key.
C1_CompletedNeverShrinks ==
    [][ /\ CompletedKeys(progressFile) \subseteq CompletedKeys(progressFile')
        /\ (result'.cmd = "complete" /\ result'.status = "ok")
              => str(result'.arg) \in CompletedKeys(progressFile')
        /\ (result'.cmd = "next" /\ result'.status = "ok")
              => \A i \in DOMAIN result'.out :
                    str(result'.out[i]) \notin CompletedKeys(progressFile') ]_vars

\* C1 witness: next has answered with pending ids after a scenario was completed
C1_Witness ==
    /\ result.cmd = "next"
    /\ result.status = "ok"
    /\ result.out # <<>>
    /\ CompletedKeys(progressFile) # {}

\* C4: a save is atomic: when the process stops during save_progress the
\* ledger file is the complete prior ledger or the complete new one, and a
\* load of it succeeds.
C4_SaveAtomic ==
    [][ result'.status = "stopped" =>
          /\ load_ok(progressFile')
          /\ progressFile' \in {progressFile, saved_file(result'.out[1])} ]_vars

\* a precedes b in the order (active first, category ascending, id ascending)
Precedes(a, b) ==
    \/ a.is_active /\ ~b.is_active
    \/ a.is_active = b.is_active /\ StrLess(a.category, b.category)
    \/ a.is_active = b.is_active /\ a.category = b.category /\ a.id < b.id

\* the manifest entries whose id is not a key of `completed`
PendingEntries ==
    { manifestFile.scenarios[i] : i \in
        { j \in DOMAIN manifestFile.scenarios :
            str(manifestFile.scenarios[j].id) \notin CompletedKeys(progressFile) } }

C2_WitnessAllDone ==
    /\ result.cmd = "next"
    /\ result.status = "ok"
    /\ result.arg > 0
    /\ manifestFile.scenarios # <<>>
    /\ PendingEntries = {}
    /\ result.out = <<>>

\* the answers that confirm
AffirmativeAnswers == { <<"s">>, <<"S">>, <<" ", "s", " ">> }

\* C3: a complete that found no document and was not confirmed leaves the
\* persisted ledger as it was; a record with doc_file null is written only by
\* a complete that was confirmed.
C3_DeclinedCompleteLeavesLedger ==
    [][ /\ ( /\ result'.cmd = "complete"
             /\ ~IsNone(result'.asked)
             /\ Val(result'.asked) \notin AffirmativeAnswers )
           => progressFile' = progressFile
        /\ \A k \in CompletedKeys(progressFile') :
              ( /\ IsNone(load_progress(progressFile').completed[k].doc_file)
                /\ \/ k \notin CompletedKeys(progressFile)
                   \/ load_progress(progressFile').completed[k]
                        # load_progress(progressFile).completed[k] )
              => /\ result'.cmd = "complete"
                 /\ ~IsNone(result'.asked)
                 /\ Val(result'.asked) \in AffirmativeAnswers ]_vars

\* C3 witness: a complete was declined while the ledger holds a record that
\* was confirmed without a document
C3_Witness ==
    /\ result.cmd = "complete"
    /\ result.status = "cancelled"
    /\ \E k \in CompletedKeys(progressFile) :
          IsNone(load_progress(progressFile).completed[k].doc_file)

\* a step in which save_progress ran
SaveStep ==
    \/ result'.cmd = "save"
    \/ result'.cmd = "complete" /\ result'.status # "cancelled"

\* C7 as stated: save(load()) leaves `completed` untouched and changes no
\* field of the ledger other than last_updated, for a persisted and for a
\* fresh ledger.
C7_RoundTripOnlyLastUpdated ==
    [][ result'.cmd = "save" =>
          LET before == load_progress(progressFile)
              after == load_progress(progressFile')
          IN  /\ after.completed = before.completed
              /\ after.errors = before.errors
              /\ after.started_at = before.started_at ]_vars

\* C7 amended: save(load()) leaves `completed` and `errors` untouched and
\* changes no field other than last_updated, except that on a ledger whose
\* started_at is unset (the fresh ledger) it also sets started_at, to the
\* value it gives last_updated.
C7_RoundTripAmended ==
    [][ result'.cmd = "save" =>
          LET before == load_progress(progressFile)
              after == load_progress(progressFile')
          IN  /\ after.completed = before.completed
              /\ after.errors = before.errors
              /\ IF IsNone(before.started_at)
                 THEN after.started_at = after.last_updated
                 ELSE after.started_at = before.started_at ]_vars

\* C7 witness: a persisted ledger with a completed scenario was loaded and
\* saved at a later time than it was started
C7_Witness ==
    /\ result.cmd = "save"
    /\ CompletedKeys(progressFile) # {}
    /\ Val(load_progress(progressFile).started_at)
          < Val(load_progress(progressFile).last_updated)

\* C8: the first save sets started_at to its own time, every later save
\* keeps started_at; every save sets last_updated to its own time; no other
\* step changes the ledger; so started_at <= last_updated in every persisted
\* ledger (the clock does not decrease).
C8_Timestamps ==
    [][ LET before == load_progress(progressFile)
            after == load_progress(progressFile')
        IN  /\ SaveStep =>
                 /\ progressFile'.exists
                 /\ after.last_updated = Some(now')
                 /\ IF IsNone(before.started_at)
                    THEN after.started_at = Some(now')
                    ELSE after.started_at = before.started_at
            /\ ~SaveStep => progressFile' = progressFile
            /\ progressFile'.exists =>
                 Val(after.started_at) <= Val(after.last_updated) ]_vars

\* C8 witness: the ledger was saved at a later time than its first save
C8_Witness ==
    /\ progressFile.exists
    /\ Val(load_progress(progressFile).started_at) = 1
    /\ Val(load_progress(progressFile).last_updated) = MaxClock
    /\ result.cmd = "complete"

\* the ids of a list of manifest entries
IdsOf(entries) == [i \in DOMAIN entries |-> entries[i].id]

\* sub is made of elements of list, in the order of list
IsSubSeq(sub, list) ==
    \E pos \in [DOMAIN sub -> DOMAIN list] :
        /\ \A i, j \in DOMAIN sub : i < j => pos[i] < pos[j]
        /\ \A i \in DOMAIN sub : list[pos[i]] = sub[i]

\* C5: a batch over a non-empty selection attempts every selected entry, in
\* manifest order, whatever the outcome of each (written, flow-definition file
\* missing, exception while building); success + errors is the number
\* selected, success the number of artifacts written, and a failing entry
\* leaves its task file as it was.
C5_BatchCountsEveryEntry ==
    [][ (result'.cmd = "prepare" /\ result'.status = "ok") =>
          LET selected == result'.arg
              log == result'.out.log
              written == { i \in DOMAIN log : flowFiles[log[i].id].state = "ok" }
          IN  /\ selected # <<>>
              /\ IsSubSeq(selected, IdsOf(manifestFile.scenarios))
              /\ IdsOf(log) = selected
              /\ \A i \in DOMAIN log :
                    /\ flowFiles[log[i].id].state = "ok" => log[i].outcome = "OK"
                    /\ flowFiles[log[i].id].state = "missing" => log[i].outcome = "SKIP"
                    /\ flowFiles[log[i].id].state = "corrupt" => log[i].outcome = "ERROR"
              /\ result'.out.success + result'.out.errors = Len(selected)
              /\ result'.out.success = Cardinality(written)
              /\ \A i \in DOMAIN log :
                    IF i \in written
                    THEN /\ ~IsNone(tasksDir'[log[i].id])
                         /\ Val(tasksDir'[log[i].id]).scenario_id = log[i].id
                         /\ Val(tasksDir'[log[i].id]).blueprint
                               = flowFiles[log[i].id].blueprint
                    ELSE tasksDir'[log[i].id] = tasksDir[log[i].id] ]_vars

\* C5 witness: a batch of three whose first entry raised, whose second was
\* written and whose third was missing
C5_Witness ==
    /\ result.cmd = "prepare"
    /\ result.status = "ok"
    /\ Len(result.out.log) = 3
    /\ result.out.log[1].outcome = "ERROR"
    /\ result.out.log[2].outcome = "OK"
    /\ result.out.log[3].outcome = "SKIP"
    /\ result.out.success = 1
    /\ result.out.errors = 2

\* the addresses of the nodes of a flow tree: <<i>> is node i of the list,
\* <<i, r>> \o p the node p of the flow of route r of node i
RECURSIVE NodePaths(_)
NodePaths(flow) ==
    UNION { {<<i>>} \cup
            (IF "routes" \in DOMAIN flow[i]
             THEN UNION { IF "flow" \in DOMAIN flow[i].routes[r]
                          THEN { <<i, r>> \o p : p \in NodePaths(flow[i].routes[r].flow) }
                          ELSE {}
                          : r \in DOMAIN flow[i].routes }
             ELSE {})
            : i \in DOMAIN flow }

\* the artifacts in TASKS_DIR
Artifacts == { Val(tasksDir[id]) : id \in { i \in DOMAIN tasksDir : ~IsNone(tasksDir[i]) } }

\* C6: module_count is the number of nodes of the flow tree, the nodes of
\* every nested route branch included, a route without a flow counting as
\* empty; 0 on the empty flow.
C6_CountModulesIsNodeCount ==
    \A a \in Artifacts :
        /\ a.blueprint = flowFiles[a.scenario_id].blueprint
        /\ a.module_count =
              Cardinality(NodePaths(IF "flow" \in DOMAIN a.blueprint
                                    THEN a.blueprint.flow ELSE <<>>))

\* C6 witness: the count of a flow with a node three levels deep, beside a
\* route without a flow
C6_Witness ==
    \E a \in Artifacts :
        /\ "flow" \in DOMAIN a.blueprint
        /\ \E p \in NodePaths(a.blueprint.flow) : Len(p) = 5
        /\ a.module_count = 3

\* C6 witness of the empty flow
C6_WitnessEmpty ==
    \E a \in Artifacts :
        /\ "flow" \in DOMAIN a.blueprint
        /\ a.blueprint.flow = <<>>
        /\ a.module_count = 0

\* C9 as stated: preparing a scenario again, with the same manifest entry,
\* flow definition and schema index, writes under the same id an artifact
\* equal to the one before in every field but prepared_at, the order of
\* tables_detected and subscenarios_detected included.
C9_PrepareTwiceSameArtifact ==
    [][ (result'.cmd = "prepare" /\ result'.status = "ok") =>
          \A id \in DOMAIN tasksDir :
              (~IsNone(tasksDir[id]) /\ ~IsNone(tasksDir'[id])) =>
                  [Val(tasksDir'[id]) EXCEPT !.prepared_at = 0]
                     = [Val(tasksDir[id]) EXCEPT !.prepared_at = 0] ]_vars

\* the elements of a list
Range(list) == { list[i] : i \in DOMAIN list }

\* a list of a value that is None or a list
ListOf(v) == IF IsNone(v) THEN <<>> ELSE Val(v)

\* C10 as stated: tables_detected lists no name twice and holds exactly the
\* table names of the schema index that occur (whatever the case) in the flow
\* text; relevant_db_schema holds exactly the TableDescriptors of those
\* tables, unmodified; both are empty when no name occurs or there is no
\* schema index.
C10_TablesDetectedExact ==
    \A a \in Artifacts :
        LET text == lower(dumps_blueprint(a.blueprint))
            tables == IF schemaFile.exists THEN Range(schemaFile.tables) ELSE {}
            occurring == { t \in tables : Contains(text, lower(t.name)) }
        IN  /\ \A i, j \in DOMAIN a.tables_detected :
                  a.tables_detected[i] = a.tables_detected[j] => i = j
            /\ Range(a.tables_detected) = { t.name : t \in occurring }
            /\ Range(ListOf(a.relevant_db_schema)) = occurring

\* C11: two concurrent `complete` processes for different ids. When both have
\* ended with success the ledger file is a complete ledger that holds the id
\* of at least one of them, and it holds both whenever one of them loaded the
\* ledger after the save of the other had returned (the two ran one after the
\* other); an id can be missing only when neither saw the other's save.
C11_RaceOutcome ==
    (\A p \in Procs : procs[p].pc = "done" /\ procs[p].status = "ok") =>
        /\ load_ok(progressFile)
        /\ \E p \in Procs : str(procs[p].scenario_id) \in CompletedKeys(progressFile)
        /\ (\E p \in Procs : procs[p].after # {}) =>
              \A p \in Procs : str(procs[p].scenario_id) \in CompletedKeys(progressFile)

\* C11 witness: the lost update: both processes reported success and the
\* ledger holds the id of only one of them
C11_Witness ==
    /\ \A p \in Procs : procs[p].pc = "done" /\ procs[p].status = "ok"
    /\ \E p \in Procs : str(procs[p].scenario_id) \in CompletedKeys(progressFile)
    /\ \E p \in Procs : str(procs[p].scenario_id) \notin CompletedKeys(progressFile)

\* C11 witness: one after the other, the ledger holds both ids
C11_WitnessSequential ==
    /\ \A p \in Procs : procs[p].pc = "done" /\ procs[p].status = "ok"
    /\ \E p \in Procs : procs[p].after # {}
    /\ \A p \in Procs : str(procs[p].scenario_id) \in CompletedKeys(progressFile)

\* C12: after any sequence of complete operations status reports
\* done + pending = total with 0 <= done <= total, pending the number of
\* manifest entries whose id is not a key of `completed`, and the
\* inactive-documented count the number of inactive manifest entries whose id
\* is a key of `completed`.
C12_StatusCounts ==
    (result.cmd = "status" /\ result.status = "ok") =>
        LET r == result.out
            scenarios == manifestFile.scenarios
            keys == CompletedKeys(progressFile)
        IN  /\ r.done + r.pending = r.total
            /\ 0 <= r.done
            /\ r.done <= r.total
            /\ r.pending = Cardinality({ i \in DOMAIN scenarios :
                                            str(scenarios[i].id) \notin keys })
            /\ r.inactive_done =
                  Cardinality({ i \in DOMAIN scenarios :
                                  ~scenarios[i].is_active /\ str(scenarios[i].id) \in keys })

\* C13: complete changes the persisted ledger only when the command ends
\* normally: when it ends with a fatal error (no manifest file, or a manifest
\* with zero scenarios) the ledger file is the same as before the call.
C13_FailedCompleteLeavesLedger ==
    [][ (result'.cmd = "complete" /\ result'.status \in {"exit1", "ZeroDivisionError"})
          => progressFile' = progressFile ]_vars

====
